---- MODULE Spec2Model ----
(***************************************************************************)
(* Model of src/bin/rustc.rs: the `cargo rustc` front end (execute) and    *)
(* the RustcEngine interceptor (append_rustc_opts).                        *)
(*                                                                         *)
(* Option<T> is modelled as a sequence: None is <<>>, Some(x) is <<x>>.    *)
(* Vec<T> and argument lists are sequences.                                *)
(***************************************************************************)
EXTENDS Integers, Sequences, FiniteSets, TLC

VARIABLES
    options,      \* the parsed Options struct (immutable after parse)
    env,          \* what the collaborators will answer: manifest, package
    pc,           \* position of execute
    verbose,      \* config.shell() verbosity
    root,         \* Option<PathBuf> : result of find_root_manifest_for_cwd
    package,      \* Option<Package> : result of get_package
    opts,         \* Option<CompileOptions> handed to ops::compile
    compileCalls, \* number of calls of ops::compile made by execute
    compileRes,   \* what ops::compile returned: "none" | "ok" | "err"
    result,       \* Option<CliResult<Option<()>>> returned by execute
    last          \* Option<the process the engine ran last>

vars == <<options, env, pc, verbose, root, package, opts, compileCalls,
          compileRes, result, last>>

-----------------------------------------------------------------------------
(* Bounds *)

MaxTargets == 2     \* longest target list of a package
MaxCmdLen == 4      \* longest argument list handed to the interceptor

-----------------------------------------------------------------------------
(* Option and sequence helpers *)

None == <<>>

Some(x) == <<x>>

Range(s) == {s[i] : i \in 1..Len(s)}

SeqsUpTo(S, n) == UNION {[1..k -> S] : k \in 0..n}

NoRepeat(s) == \A i, j \in 1..Len(s) : i # j => s[i] # s[j]

-----------------------------------------------------------------------------
(* Input domains *)

PackageName == "foo"

TargetUniverse ==
    { [name |-> "foo", kind |-> "lib"],
      [name |-> "foo", kind |-> "bin"],
      [name |-> "bar", kind |-> "bin"],
      [name |-> "ex",  kind |-> "example"] }

TargetLists == {s \in SeqsUpTo(TargetUniverse, MaxTargets) : NoRepeat(s)}

Packages == {[name |-> PackageName, targets |-> ts] : ts \in TargetLists}

DepNames == {"bar"}

TrailingArgs == {None, Some(<<"-O">>), Some(<<"-C", "-g">>)}

PkgIds == {None, Some("foo"), Some("bar")}

Profiles == {None, Some("dev"), Some("test")}

DefaultFlags ==
    [ flag_jobs |-> None, flag_features |-> <<>>,
      flag_no_default_features |-> FALSE, flag_target |-> None,
      flag_verbose |-> FALSE, flag_release |-> FALSE ]

FlagSets ==
    { DefaultFlags,
      [DefaultFlags EXCEPT !.flag_jobs = Some(2)],
      [DefaultFlags EXCEPT !.flag_features = <<"feat">>],
      [DefaultFlags EXCEPT !.flag_no_default_features = TRUE],
      [DefaultFlags EXCEPT !.flag_target = Some("triple")],
      [DefaultFlags EXCEPT !.flag_verbose = TRUE],
      [DefaultFlags EXCEPT !.flag_release = TRUE] }

MkOptions(pkgid, args, profile, mpath, f) ==
    [ arg_pkgid |-> pkgid, arg_opts |-> args,
      flag_jobs |-> f.flag_jobs, flag_features |-> f.flag_features,
      flag_no_default_features |-> f.flag_no_default_features,
      flag_profile |-> profile, flag_target |-> f.flag_target,
      flag_manifest_path |-> mpath, flag_verbose |-> f.flag_verbose,
      flag_release |-> f.flag_release ]

OptionsSet ==
    { MkOptions(pkgid, args, profile, mpath, f) :
        pkgid \in PkgIds, args \in TrailingArgs,
        profile \in {None, Some("dev")},
        mpath \in {None, Some("dir/Cargo.toml")}, f \in FlagSets }

Envs ==
    [ manifest_found : BOOLEAN, package_loads : BOOLEAN, package : Packages ]

-----------------------------------------------------------------------------
(* append_rustc_opts and the engine *)

RECURSIVE target_find(_, _, _)
target_find(targets, name, j) ==
    IF j > Len(targets) THEN FALSE
    ELSE IF targets[j] = name THEN TRUE
    ELSE target_find(targets, name, j + 1)

window_matches_any_name(w, targets) == target_find(targets, w[2], 1)

window_matches(w, targets) ==
    w[1] = "--crate-name" /\ target_find(targets, w[2], 1)

RECURSIVE windows_find(_, _, _)
windows_find(cmdargs, targets, i) ==
    IF i + 1 > Len(cmdargs) THEN FALSE
    ELSE IF window_matches(<<cmdargs[i], cmdargs[i + 1]>>, targets) THEN TRUE
    ELSE windows_find(cmdargs, targets, i + 1)

name_matches(cmdargs, targets) == windows_find(cmdargs, targets, 1)

append_per_match(cmdargs, args, targets) ==
    LET n == Cardinality({i \in 1..(Len(cmdargs) - 1) :
                 window_matches(<<cmdargs[i], cmdargs[i + 1]>>, targets)})
        rep[k \in 0..Len(cmdargs)] ==
            IF k = 0 THEN cmdargs ELSE rep[k - 1] \o args[1]
    IN  IF args # None THEN rep[n] ELSE cmdargs

append_rustc_opts(cmdargs, args, targets) ==
    IF name_matches(cmdargs, targets)
    THEN IF args # None THEN cmdargs \o args[1] ELSE cmdargs
    ELSE cmdargs

-----------------------------------------------------------------------------
(* execute: the pieces of the compile configuration *)

is_bin_or_example(t) == t.kind # "lib"

is_bin(t) == t.kind = "bin"

RECURSIVE bin_names(_, _)
bin_names(targets, i) ==
    IF i > Len(targets) THEN <<>>
    ELSE IF is_bin(targets[i])
         THEN <<targets[i].name>> \o bin_names(targets, i + 1)
         ELSE bin_names(targets, i + 1)

spec_of(arg_pkgid, pkgname) ==
    IF arg_pkgid = None THEN None
    ELSE Some(IF arg_pkgid[1] = pkgname THEN None ELSE Some(arg_pkgid[1]))

filter_always_only(bins) ==
    [ kind |-> "Only", lib |-> FALSE, bins |-> bins, examples |-> <<>>,
      benches |-> <<>>, tests |-> <<>> ]

filter_of(bins) ==
    IF bins = <<>>
    THEN [ kind |-> "Everything" ]
    ELSE [ kind |-> "Only", lib |-> FALSE, bins |-> bins, examples |-> <<>>,
           benches |-> <<>>, tests |-> <<>> ]

RustcEngine(o, bins) == [ args |-> o.arg_opts, targets |-> bins ]

CompileOptionsOf(o, pkg) ==
    LET bins == bin_names(pkg.targets, 1) IN
    [ jobs |-> o.flag_jobs,
      target |-> o.flag_target,
      features |-> o.flag_features,
      no_default_features |-> o.flag_no_default_features,
      spec |-> spec_of(o.arg_pkgid, pkg.name)[1],
      exec_engine |-> Some(RustcEngine(o, bins)),
      mode |-> "Build",
      release |-> o.flag_release,
      filter |-> filter_of(bins) ]

CliOk == [ tag |-> "Ok", exit_code |-> 0 ]

CliErr(code) == [ tag |-> "Err", exit_code |-> code ]

map_err_code_1(err) == CliErr(1)

map_err(err) == CliErr(101)

\* exit codes the collaborators' errors may carry (try! at l.104 and l.106)
ResolveErrorCodes == {101, 102}

-----------------------------------------------------------------------------
(* The external engine: which processes ops::compile hands to the hook *)

RustcArgs(u) ==
    <<u.src, "--crate-name", u.name, "--crate-type", u.crate_type>>

DepUnits ==
    { [kind |-> "dep", name |-> n, crate_type |-> "lib", src |-> "dep.rs"] :
        n \in DepNames }

TargetUnit(t) ==
    [ kind |-> t.kind, name |-> t.name,
      crate_type |-> IF t.kind = "lib" THEN "lib" ELSE "bin",
      src |-> IF t.kind = "lib" THEN "lib.rs" ELSE "main.rs" ]

PackageUnits(pkg, co) ==
    IF co.spec # None THEN {}
    ELSE IF co.filter.kind = "Everything"
         THEN {TargetUnit(t) : t \in Range(pkg.targets)}
         ELSE {TargetUnit(t) : t \in {x \in Range(pkg.targets) :
                  \/ x.kind = "lib"
                  \/ x.kind = "bin" /\ x.name \in Range(co.filter.bins)}}

CompileUnits ==
    IF pc = "compiling"
    THEN DepUnits \cup PackageUnits(package[1], opts[1])
    ELSE {}

OtherUnit == [kind |-> "other", name |-> "", crate_type |-> "", src |-> ""]

ArgTokens == {"--crate-name", "foo"}

AnyCommands == SeqsUpTo(ArgTokens, MaxCmdLen)

-----------------------------------------------------------------------------
(* Initial states *)

Init ==
    /\ options \in OptionsSet
    /\ env \in Envs
    /\ pc = "start"
    /\ verbose = FALSE
    /\ root = None
    /\ package = None
    /\ opts = None
    /\ compileCalls = 0
    /\ compileRes = "none"
    /\ result = None
    /\ last = None

-----------------------------------------------------------------------------
(* execute, step by step *)

find_root_manifest_ignoring_failure ==
    /\ pc = "start"
    /\ verbose' = options.flag_verbose
    /\ root' = Some("Cargo.toml")
    /\ pc' = "get_package"
    /\ UNCHANGED <<options, env, package, opts, compileCalls, compileRes,
                   result, last>>

find_root_manifest ==
    /\ pc = "start"
    /\ verbose' = options.flag_verbose
    /\ IF env.manifest_found
       THEN /\ root' = Some("Cargo.toml")
            /\ pc' = "get_package"
            /\ UNCHANGED result
       ELSE /\ \E c \in ResolveErrorCodes : result' = Some(CliErr(c))
            /\ pc' = "done"
            /\ UNCHANGED root
    /\ UNCHANGED <<options, env, package, opts, compileCalls, compileRes, last>>

get_package ==
    /\ pc = "get_package"
    /\ IF env.package_loads
       THEN /\ package' = Some(env.package)
            /\ pc' = "configure"
            /\ UNCHANGED result
       ELSE /\ \E c \in ResolveErrorCodes : result' = Some(CliErr(c))
            /\ pc' = "done"
            /\ UNCHANGED package
    /\ UNCHANGED <<options, env, verbose, root, opts, compileCalls,
                   compileRes, last>>

configure ==
    /\ pc = "configure"
    /\ IF spec_of(options.arg_pkgid, package[1].name) = None
       THEN /\ pc' = "panicked"
            /\ UNCHANGED opts
       ELSE /\ opts' = Some(CompileOptionsOf(options, package[1]))
            /\ pc' = "compile"
    /\ UNCHANGED <<options, env, verbose, root, package, compileCalls,
                   compileRes, result, last>>

compile_call ==
    /\ pc = "compile"
    /\ compileCalls' = compileCalls + 1
    /\ pc' = "compiling"
    /\ UNCHANGED <<options, env, verbose, root, package, opts, compileRes,
                   result, last>>

compile_return ==
    /\ pc = "compiling"
    /\ \E r \in {"ok", "err"} :
          /\ compileRes' = r
          /\ result' = Some(IF r = "ok" THEN CliOk ELSE map_err(r))
    /\ pc' = "done"
    /\ UNCHANGED <<options, env, verbose, root, package, opts, compileCalls,
                   last>>

-----------------------------------------------------------------------------
(* The ExecEngine hook *)

Run(unit, command, method) ==
    LET engine == opts[1].exec_engine[1] IN
    /\ pc = "compiling"
    /\ last' = Some([ unit |-> unit, cmd |-> command, method |-> method,
                      out |-> append_rustc_opts(command, engine.args,
                                                engine.targets) ])
    /\ UNCHANGED <<options, env, pc, verbose, root, package, opts,
                   compileCalls, compileRes, result>>

exec(unit, command) == Run(unit, command, "exec")

exec_with_output(unit, command) == Run(unit, command, "exec_with_output")

-----------------------------------------------------------------------------
(* Specification of one run of `cargo rustc` *)

Next ==
    \/ find_root_manifest
    \/ get_package
    \/ configure
    \/ compile_call
    \/ \E u \in CompileUnits : exec(u, RustcArgs(u))
    \/ \E u \in CompileUnits : exec_with_output(u, RustcArgs(u))
    \/ compile_return

Spec == Init /\ [][Next]_vars

-----------------------------------------------------------------------------
(* Specification of the interceptor alone: execute has built the engine    *)
(* and called ops::compile; any argument list may be handed to the hook.   *)

EngineOptions ==
    { MkOptions(Some(PackageName), args, None, None, DefaultFlags) :
        args \in TrailingArgs }

InitEngine ==
    /\ options \in EngineOptions
    /\ env \in {e \in Envs : e.manifest_found /\ e.package_loads}
    /\ pc = "compiling"
    /\ verbose = options.flag_verbose
    /\ root = Some("Cargo.toml")
    /\ package = Some(env.package)
    /\ opts = Some(CompileOptionsOf(options, env.package))
    /\ compileCalls = 1
    /\ compileRes = "none"
    /\ result = None
    /\ last = None

NextEngine ==
    \/ \E c \in AnyCommands : exec(OtherUnit, c)
    \/ \E c \in AnyCommands : exec_with_output(OtherUnit, c)

SpecEngine == InitEngine /\ [][NextEngine]_vars

-----------------------------------------------------------------------------
(* Properties of the interceptor, checked under SpecEngine *)

\* C1: the trailing arguments are appended to an invocation only if its
\* argument list holds `--crate-name` immediately followed by the name of a
\* binary target of the package; every other invocation runs with its
\* argument list unchanged.
C1_AppendOnlyOnMatch ==
    last # None =>
        LET r == last[1]
            binset == {t.name : t \in {x \in Range(package[1].targets) :
                                          x.kind = "bin"}}
            HasPair == \E i \in 1..(Len(r.cmd) - 1) :
                          r.cmd[i] = "--crate-name" /\ r.cmd[i + 1] \in binset
        IN  /\ ~HasPair => r.out = r.cmd
            /\ r.out \in {r.cmd, r.cmd \o
                   (IF options.arg_opts = None THEN <<>>
                    ELSE options.arg_opts[1])}

C1_Witness ==
    /\ last # None
    /\ options.arg_opts # None
    /\ last[1].out # last[1].cmd
    /\ \E i \in 1..(Len(last[1].cmd) - 1) :
          last[1].cmd[i] = "--crate-name" /\ last[1].cmd[i + 1] = "foo"

\* C10: a matching invocation keeps its own arguments as a prefix and gets
\* the trailing arguments exactly once, in order, at the end, however many
\* matching pairs it holds; without trailing arguments every invocation is
\* unchanged; the engine never changes, and running the same command again
\* gives the same argument list.
C10_AppendOnceFrame ==
    [][ /\ opts' = opts
        /\ options' = options
        /\ last' # None =>
             LET r == last'[1]
                 a == options'.arg_opts
                 eng == opts'[1].exec_engine[1]
                 HasPair == \E i \in 1..(Len(r.cmd) - 1) :
                               /\ r.cmd[i] = "--crate-name"
                               /\ r.cmd[i + 1] \in Range(eng.targets)
             IN  /\ a = None => r.out = r.cmd
                 /\ (HasPair /\ a # None) =>
                       /\ Len(r.out) = Len(r.cmd) + Len(a[1])
                       /\ SubSeq(r.out, 1, Len(r.cmd)) = r.cmd
                       /\ SubSeq(r.out, Len(r.cmd) + 1, Len(r.out)) = a[1]
        /\ (last # None /\ last' # None /\ last'[1].cmd = last[1].cmd) =>
              last'[1].out = last[1].out
      ]_vars

C10_Witness ==
    /\ last # None
    /\ options.arg_opts = Some(<<"-C", "-g">>)
    /\ last[1].cmd = <<"--crate-name", "foo", "--crate-name", "foo">>
    /\ last[1].out = <<"--crate-name", "foo", "--crate-name", "foo", "-C", "-g">>

-----------------------------------------------------------------------------
(* Properties of one run, checked under Spec *)

\* C2: when trailing arguments are given, the final rustc invocation of the
\* package being compiled (a binary target, or the library of a package
\* that has nothing but a library) ends with the trailing arguments.
C2_FinalInvocationGetsArgs ==
    (last # None /\ options.arg_opts # None) =>
        LET r == last[1]
            a == options.arg_opts[1]
            libOnly == \A t \in Range(package[1].targets) : t.kind = "lib"
            final == r.unit.kind = "bin" \/ (r.unit.kind = "lib" /\ libOnly)
        IN  final =>
               /\ Len(r.out) = Len(r.cmd) + Len(a)
               /\ SubSeq(r.out, Len(r.cmd) + 1, Len(r.out)) = a

\* C3: no invocation that compiles a dependency or the package's own
\* library has the trailing arguments appended, even when its crate name
\* equals the name of a binary target of the package.
C3_OtherCratesUntouched ==
    (last # None /\ last[1].unit.kind \in {"dep", "lib"}) =>
        last[1].out = last[1].cmd

\* C4: without a <pkgid> argument, once manifest and package are loaded,
\* execute defaults to the current package and does not abort.
C4_PkgidDefaults ==
    (options.arg_pkgid = None /\ package # None) => pc # "panicked"

\* C5 (as claimed): with at least one binary target the filter is Only with
\* the library included, the binaries being exactly the package's binary
\* targets, and no examples, benches or tests.
C5_OnlyWithLib ==
    (opts # None /\ \E t \in Range(package[1].targets) : t.kind = "bin") =>
        LET f == opts[1].filter
            ts == package[1].targets
            idx == {i \in 1..Len(ts) : ts[i].kind = "bin"}
        IN  /\ f.kind = "Only"
            /\ f.lib = TRUE
            /\ Len(f.bins) = Cardinality(idx)
            /\ \A i \in idx :
                  f.bins[Cardinality({j \in idx : j <= i})] = ts[i].name
            /\ f.examples = <<>> /\ f.benches = <<>> /\ f.tests = <<>>

\* C5 (amended): with at least one binary target the filter is Only with
\* the library flag false, the binaries being exactly the package's binary
\* targets in order, and no examples, benches or tests.
C5_OnlyBinsNoLib ==
    (opts # None /\ \E t \in Range(package[1].targets) : t.kind = "bin") =>
        LET f == opts[1].filter
            ts == package[1].targets
            idx == {i \in 1..Len(ts) : ts[i].kind = "bin"}
        IN  /\ f.kind = "Only"
            /\ f.lib = FALSE
            /\ Len(f.bins) = Cardinality(idx)
            /\ \A i \in idx :
                  f.bins[Cardinality({j \in idx : j <= i})] = ts[i].name
            /\ f.examples = <<>> /\ f.benches = <<>> /\ f.tests = <<>>

C5_Witness ==
    /\ opts # None
    /\ package[1].targets = << [name |-> "bar", kind |-> "bin"],
                               [name |-> "foo", kind |-> "bin"] >>
    /\ opts[1].filter.kind = "Only"
    /\ opts[1].filter.bins = <<"bar", "foo">>

\* C6: when the package has no binary target the filter is Everything.
C6_EverythingWithoutBins ==
    (opts # None /\ \A t \in Range(package[1].targets) : t.kind # "bin") =>
        opts[1].filter = [kind |-> "Everything"]

C6_Witness ==
    /\ opts # None
    /\ package[1].targets = << [name |-> "foo", kind |-> "lib"],
                               [name |-> "ex", kind |-> "example"] >>
    /\ opts[1].filter.kind = "Everything"

\* C7: compile is called only after the manifest was resolved and the root
\* package was loaded; when either fails execute returns an error and
\* compile is never called.
C7_CompileOnlyAfterLoad ==
    /\ compileCalls > 0 =>
          /\ env.manifest_found /\ env.package_loads
          /\ root # None /\ package = Some(env.package)
    /\ (pc = "done" /\ ~(env.manifest_found /\ env.package_loads)) =>
          /\ result # None
          /\ result[1].tag = "Err"
          /\ compileCalls = 0
          /\ compileRes = "none"

C7_Witness ==
    /\ pc = "done"
    /\ ~env.manifest_found
    /\ result # None
    /\ result[1].tag = "Err"
    /\ compileCalls = 0

\* C8: a compile error makes execute return a CLI error with exit code 101,
\* a compile success makes it return Ok (exit code 0), and compile is
\* called at most once.
C8_ExitCodes ==
    /\ compileCalls <= 1
    /\ compileRes = "err" =>
          pc = "done" /\ result = Some([tag |-> "Err", exit_code |-> 101])
    /\ compileRes = "ok" =>
          pc = "done" /\ result = Some([tag |-> "Ok", exit_code |-> 0])
    /\ (pc = "done" /\ compileCalls = 1) => compileRes # "none"

C8_Witness ==
    /\ pc = "done"
    /\ compileRes = "err"
    /\ compileCalls = 1
    /\ result[1].exit_code = 101

\* C9: the configuration handed to compile depends on the profile option:
\* the same run with any other profile value would hand compile a
\* different configuration.
C9_ProfileDeterminesConfig ==
    opts # None =>
        \A p \in Profiles \ {options.flag_profile} :
            CompileOptionsOf([options EXCEPT !.flag_profile = p], package[1])
                # opts[1]

====
